---- MODULE Spec2Model ----
(***************************************************************************)
(* Verification model of the two ray casters of the repository:            *)
(*   - src/src/player.rs + src/src/raycaster.rs : Player and cast_ray,     *)
(*     working on f64 coordinates and an angle in radians;                 *)
(*   - src/GR/src/raycasting.rs : RayCasting::lines and transform_cam,     *)
(*     working on f32 vectors and a Vec<Vec<u8>> world.                    *)
(*                                                                         *)
(* Floating-point values are modelled as exact rationals [n, d] extended   *)
(* with the IEEE special values +inf = 1/0, -inf = -1/0 and NaN = 0/0.     *)
(* Rounding error is outside the model: a "within tolerance" statement is  *)
(* checked as an exact equality of rationals.  Angles are whole multiples  *)
(* of 2*pi/AngleUnits, and cos / sin are tabulated for them.               *)
(***************************************************************************)
EXTENDS Integers, Sequences, FiniteSets, TLC

(***************************************************************************)
(* Floating-point arithmetic as extended rationals                         *)
(***************************************************************************)
Abs(n) == IF n < 0 THEN -n ELSE n

Sgn(n) == IF n < 0 THEN -1 ELSE IF n > 0 THEN 1 ELSE 0

RECURSIVE GCD(_, _)
GCD(a, b) == IF b = 0 THEN a ELSE GCD(b, a % b)

\* The value n/d in lowest terms with a positive denominator; d = 0 gives
\* +inf, -inf or NaN by the sign of n.
Q(n, d) ==
    IF d = 0 THEN [n |-> Sgn(n), d |-> 0]
    ELSE LET g == GCD(Abs(n), Abs(d))
             s == IF d < 0 THEN -1 ELSE 1
         IN  [n |-> (s * n) \div g, d |-> (s * d) \div g]

QInt(i) == [n |-> i, d |-> 1]

Zero == QInt(0)

Infinity == [n |-> 1, d |-> 0]

IsNaN(a) == a.n = 0 /\ a.d = 0

IsFinite(a) == a.d # 0

QNeg(a) == [n |-> -a.n, d |-> a.d]

QAbs(a) == [n |-> Abs(a.n), d |-> a.d]

QAdd(a, b) ==
    IF a.d # 0 /\ b.d # 0 THEN Q(a.n * b.d + b.n * a.d, a.d * b.d)
    ELSE IF IsNaN(a) \/ IsNaN(b) THEN Q(0, 0)
    ELSE IF a.d = 0 /\ b.d = 0 THEN (IF a.n = b.n THEN a ELSE Q(0, 0))
    ELSE IF a.d = 0 THEN a ELSE b

QSub(a, b) == QAdd(a, QNeg(b))

QMul(a, b) == Q(a.n * b.n, a.d * b.d)

\* 1/a; 1/0 is +inf (the sign of a floating-point zero is not modelled).
QInv(a) == Q(a.d, a.n)

QDiv(a, b) == QMul(a, QInv(b))

\* a < b as IEEE compares: false as soon as one side is NaN.
QLt(a, b) ==
    IF IsNaN(a) \/ IsNaN(b) THEN FALSE
    ELSE IF a.d = 0 /\ b.d = 0 THEN a.n < b.n
    ELSE IF a.d = 0 THEN a.n < 0
    ELSE IF b.d = 0 THEN b.n > 0
    ELSE a.n * b.d < b.n * a.d

QLe(a, b) == QLt(a, b) \/ (~IsNaN(a) /\ a = b)

\* f64::floor followed by `as isize`, for finite values.
Floor(a) == a.n \div a.d

\* `as usize` of a float: truncation toward zero, negatives and NaN
\* saturate to 0, +inf saturates to the largest value (UsizeMax stands for it).
UsizeMax == 1000000

AsUsize(a) ==
    IF a.d = 0 THEN (IF a.n > 0 THEN UsizeMax ELSE 0)
    ELSE IF a.n < 0 THEN 0 ELSE a.n \div a.d

(***************************************************************************)
(* Angles and the trigonometric table                                      *)
(***************************************************************************)
\* One full turn (2*pi) in angle units: the unit is pi/4.
AngleUnits == 8

\* Denominator of the tabulated cosines: cos(pi/4) is tabulated as 7/10.
TrigDen == 10

CosNum == <<10, 7, 0, -7, -10, -7, 0, 7>>

\* f64::cos of an angle of k units.
cos(k) == Q(CosNum[(k % AngleUnits) + 1], TrigDen)

\* f64::sin of an angle of k units: sin(a) = cos(a - pi/2).
sin(k) == Q(CosNum[((k - 2) % AngleUnits) + 1], TrigDen)

(***************************************************************************)
(* State                                                                   *)
(***************************************************************************)
VARIABLES
    prog,       \* which program of the repository runs: "player" (src/src)
                \* or "raycasting" (src/GR)
    map,        \* the Map the player program holds: which of the grids below
    x,          \* Player.x
    y,          \* Player.y
    direction,  \* Player.direction, in angle units
    ray,        \* what the last cast_ray call computed (valid = FALSE: none)
    fault,      \* "none", or the fatal failure that ended the program
    op,         \* the last operation called and its arguments
    world,      \* RayCasting.world: which of the grids below it holds
    pos,        \* RayCasting.pos
    dir,        \* RayCasting.dir
    plane,      \* RayCasting.plane
    cols,       \* what the last RayCasting::lines call computed, per column
    seg,        \* the vertical segment last projected for a screen column
    cam0,       \* history: direction, dir and plane at construction
    turned      \* history: sum of the angles turned by since construction

rc_vars == <<prog, map, world, pos, dir, plane, cols, cam0>>

vars == <<prog, map, x, y, direction, ray, fault, op, world, pos, dir, plane, cols, seg, cam0, turned>>

(***************************************************************************)
(* Grid Map (src/src: `mod map`, whose file is not among the sources).     *)
(* Modelled from the specification: a rectangular grid of cell codes,      *)
(* 0 = empty, fully enclosed by a wall border; is_wall truncates the world *)
(* coordinates to the containing cell and fails outside the grid.          *)
(***************************************************************************)
MapW == 5

MapH == 4

\* Side of the square grid of the end-to-end scenario, and the coordinate of
\* its camera on both axes.
EndToEndSize == 16

EndToEndCamera == 8

\* Width and height of the grid `map` names: "pillar" is MapW x MapH,
\* "bordered" is the square grid of the end-to-end scenario.
map_w(m) == IF m = "pillar" THEN MapW ELSE EndToEndSize

map_h(m) == IF m = "pillar" THEN MapH ELSE EndToEndSize

\* The cell codes of a grid: a wall border of code 1 around an empty
\* interior; "pillar" has one more wall cell at (2, 2).
grid_code(m, cx, cy) ==
    IF cx = 0 \/ cy = 0 \/ cx = map_w(m) - 1 \/ cy = map_h(m) - 1 THEN 1
    ELSE IF m = "pillar" /\ cx = 2 /\ cy = 2 THEN 1
    ELSE 0

\* The cell code of the Map the program holds.
map_code(cx, cy) == grid_code(map, cx, cy)

\* Truncation of a finite coordinate toward zero.
Trunc(a) == IF a.n < 0 THEN -((-a.n) \div a.d) ELSE a.n \div a.d

InMap(cx, cy) == cx >= 0 /\ cx < map_w(map) /\ cy >= 0 /\ cy < map_h(map)

\* The lookup of is_wall(x, y) falls outside the grid (a fatal failure).
is_wall_fails(wx, wy) ==
    ~IsFinite(wx) \/ ~IsFinite(wy) \/ ~InMap(Trunc(wx), Trunc(wy))

is_wall(wx, wy) == map_code(Trunc(wx), Trunc(wy)) # 0

(***************************************************************************)
(* cast_ray (src/src/raycaster.rs)                                         *)
(***************************************************************************)
\* Bound of the model on the iterations of one DDA loop.
MaxIter == 40

\* cast_ray_step with the comparison turned round: the axis of the larger
\* side_dist is stepped.
cast_ray_step_farther_axis(s, delta_dist_x, delta_dist_y, step_x, step_y) ==
    LET t == IF QLt(s.side_dist_y, s.side_dist_x)
             THEN [s EXCEPT !.side_dist_x = QAdd(s.side_dist_x, delta_dist_x),
                            !.map_x = s.map_x + step_x,
                            !.side = 0]
             ELSE [s EXCEPT !.side_dist_y = QAdd(s.side_dist_y, delta_dist_y),
                            !.map_y = s.map_y + step_y,
                            !.side = 1]
         u == [t EXCEPT !.path = Append(s.path, <<t.map_x, t.map_y>>)]
    IN  IF is_wall_fails(QInt(u.map_x), QInt(u.map_y))
        THEN [u EXCEPT !.fault = "out_of_bounds"]
        ELSE [u EXCEPT !.hit = is_wall(QInt(u.map_x), QInt(u.map_y))]

\* One iteration of `while !hit`, lines 54-68: s is the loop state.
cast_ray_step(s, delta_dist_x, delta_dist_y, step_x, step_y) ==
    LET t == IF QLt(s.side_dist_x, s.side_dist_y)
             THEN [s EXCEPT !.side_dist_x = QAdd(s.side_dist_x, delta_dist_x),
                            !.map_x = s.map_x + step_x,
                            !.side = 0]
             ELSE [s EXCEPT !.side_dist_y = QAdd(s.side_dist_y, delta_dist_y),
                            !.map_y = s.map_y + step_y,
                            !.side = 1]
         u == [t EXCEPT !.path = Append(s.path, <<t.map_x, t.map_y>>)]
    IN  IF is_wall_fails(QInt(u.map_x), QInt(u.map_y))
        THEN [u EXCEPT !.fault = "out_of_bounds"]
        ELSE [u EXCEPT !.hit = is_wall(QInt(u.map_x), QInt(u.map_y))]

\* The loop of lines 53-69, cut after `fuel` iterations.
RECURSIVE cast_ray_loop(_, _, _, _, _, _)
cast_ray_loop(s, delta_dist_x, delta_dist_y, step_x, step_y, fuel) ==
    IF s.hit \/ s.fault # "none" THEN s
    ELSE IF fuel = 0 THEN [s EXCEPT !.fault = "no_termination"]
    ELSE cast_ray_loop(cast_ray_step(s, delta_dist_x, delta_dist_y, step_x, step_y),
                       delta_dist_x, delta_dist_y, step_x, step_y, fuel - 1)

\* cast_ray_perp with the half-cell correction of the wrong sign:
\* (1 + step) / 2 for (1 - step) / 2.
cast_ray_perp_plus_step(s, px, py, ray_dir_x, ray_dir_y, step_x, step_y) ==
    IF s.side = 0
    THEN QDiv(QAdd(QSub(QInt(s.map_x), px), Q(1 + step_x, 2)), ray_dir_x)
    ELSE QDiv(QAdd(QSub(QInt(s.map_y), py), Q(1 + step_y, 2)), ray_dir_y)

\* Lines 72-76: the distance returned, from the final loop state.
cast_ray_perp(s, px, py, ray_dir_x, ray_dir_y, step_x, step_y) ==
    IF s.side = 0
    THEN QDiv(QAdd(QSub(QInt(s.map_x), px), Q(1 - step_x, 2)), ray_dir_x)
    ELSE QDiv(QAdd(QSub(QInt(s.map_y), py), Q(1 - step_y, 2)), ray_dir_y)

\* cast_ray(map, player, angle_offset), lines 13-79.  The record returned
\* holds the result (perp_wall_dist, is_horizontal) and the locals of the call.
cast_ray(px, py, facing, angle_offset) ==
    LET ray_angle == facing + angle_offset
        ray_dir_x == cos(ray_angle)
        ray_dir_y == sin(ray_angle)
        map_x == Floor(px)
        map_y == Floor(py)
        delta_dist_x == IF ray_dir_x # Zero THEN QAbs(QInv(ray_dir_x)) ELSE Infinity
        delta_dist_y == IF ray_dir_y # Zero THEN QAbs(QInv(ray_dir_y)) ELSE Infinity
        step_x == IF QLt(ray_dir_x, Zero) THEN -1 ELSE 1
        side_dist_x == IF QLt(ray_dir_x, Zero)
                       THEN QMul(QSub(px, QInt(map_x)), delta_dist_x)
                       ELSE QMul(QSub(QAdd(QInt(map_x), QInt(1)), px), delta_dist_x)
        step_y == IF QLt(ray_dir_y, Zero) THEN -1 ELSE 1
        side_dist_y == IF QLt(ray_dir_y, Zero)
                       THEN QMul(QSub(py, QInt(map_y)), delta_dist_y)
                       ELSE QMul(QSub(QAdd(QInt(map_y), QInt(1)), py), delta_dist_y)
        s0 == [map_x |-> map_x, map_y |-> map_y,
               side_dist_x |-> side_dist_x, side_dist_y |-> side_dist_y,
               side |-> 0, hit |-> FALSE, fault |-> "none", path |-> <<>>]
        s == cast_ray_loop(s0, delta_dist_x, delta_dist_y, step_x, step_y, MaxIter)
    IN  [valid |-> TRUE,
         angle_offset |-> angle_offset,
         ray_dir_x |-> ray_dir_x, ray_dir_y |-> ray_dir_y,
         delta_dist_x |-> delta_dist_x, delta_dist_y |-> delta_dist_y,
         step_x |-> step_x, step_y |-> step_y,
         start_x |-> map_x, start_y |-> map_y,
         map_x |-> s.map_x, map_y |-> s.map_y,
         side_dist_x |-> s.side_dist_x, side_dist_y |-> s.side_dist_y,
         side |-> s.side, path |-> s.path, fault |-> s.fault,
         perp_wall_dist |-> IF s.fault = "none"
                            THEN cast_ray_perp(s, px, py, ray_dir_x, ray_dir_y,
                                               step_x, step_y)
                            ELSE Q(0, 0),
         is_horizontal |-> (s.side = 1)]

NoRay ==
    [valid |-> FALSE, angle_offset |-> 0,
     ray_dir_x |-> Zero, ray_dir_y |-> Zero,
     delta_dist_x |-> Zero, delta_dist_y |-> Zero,
     step_x |-> 0, step_y |-> 0, start_x |-> 0, start_y |-> 0,
     map_x |-> 0, map_y |-> 0,
     side_dist_x |-> Zero, side_dist_y |-> Zero,
     side |-> 0, path |-> <<>>, fault |-> "none",
     perp_wall_dist |-> Zero, is_horizontal |-> FALSE]

(***************************************************************************)
(* Player (src/src/player.rs)                                              *)
(***************************************************************************)
\* move_commit with the second check made at the pre-move x (self.x read
\* before the first commit).
move_commit_independent(px, py, new_x, new_y) ==
    IF is_wall_fails(new_x, py) \/ is_wall_fails(px, new_y)
    THEN [x |-> px, y |-> py, fault |-> "out_of_bounds"]
    ELSE [x |-> IF ~is_wall(new_x, py) THEN new_x ELSE px,
          y |-> IF ~is_wall(px, new_y) THEN new_y ELSE py,
          fault |-> "none"]

\* move_commit with the two checks in the other order: y is decided first,
\* at the pre-move x, and x is decided at the y the move then has.
move_commit_y_first(px, py, new_x, new_y) ==
    IF is_wall_fails(px, new_y)
    THEN [x |-> px, y |-> py, fault |-> "out_of_bounds"]
    ELSE LET y1 == IF ~is_wall(px, new_y) THEN new_y ELSE py
         IN  IF is_wall_fails(new_x, y1)
             THEN [x |-> px, y |-> y1, fault |-> "out_of_bounds"]
             ELSE [x |-> IF ~is_wall(new_x, y1) THEN new_x ELSE px,
                   y |-> y1,
                   fault |-> "none"]

\* move_commit without sliding: the move is made only when both candidates
\* are open.
move_commit_no_slide(px, py, new_x, new_y) ==
    IF is_wall_fails(new_x, py) \/ is_wall_fails(px, new_y)
    THEN [x |-> px, y |-> py, fault |-> "out_of_bounds"]
    ELSE IF ~is_wall(new_x, py) /\ ~is_wall(new_x, new_y)
    THEN [x |-> new_x, y |-> new_y, fault |-> "none"]
    ELSE [x |-> px, y |-> py, fault |-> "none"]

\* Lines 44-52 (and 65-73): the two collision checks and the commits, from
\* the position (px, py) and the candidates (new_x, new_y).  A lookup
\* outside the grid ends the program where it happens.
move_commit(px, py, new_x, new_y) ==
    IF is_wall_fails(new_x, py)
    THEN [x |-> px, y |-> py, fault |-> "out_of_bounds"]
    ELSE LET x1 == IF ~is_wall(new_x, py) THEN new_x ELSE px
         IN  IF is_wall_fails(x1, new_y)
             THEN [x |-> x1, y |-> py, fault |-> "out_of_bounds"]
             ELSE [x |-> x1,
                   y |-> IF ~is_wall(x1, new_y) THEN new_y ELSE py,
                   fault |-> "none"]

\* Candidates of move_forward, lines 41-42.
forward_x(px, facing, distance) == QAdd(px, QMul(cos(facing), distance))

forward_y(py, facing, distance) == QAdd(py, QMul(sin(facing), distance))

\* Candidates of move_backward, lines 62-63.
backward_x(px, facing, distance) == QSub(px, QMul(cos(facing), distance))

backward_y(py, facing, distance) == QSub(py, QMul(sin(facing), distance))

\* Inputs of the model: the per-call distances (main.rs uses 0.05), the
\* turning angles in angle units (main.rs uses 0.03 rad): a quarter turn and
\* a full turn, and the angular offsets of a ray (up to fov / 2 = pi / 4).
Distances == {Q(1, 2)}

TurnAngles == {2, AngleUnits}

Offsets == {-1, 0, 1}

\* Bound of the model on |direction|, which the program lets grow for ever.
MaxAngle == 8

\* The record of the last call: its name, its distance or move factor, and
\* its angle, angular offset, rotation factor or screen width.
Log(name, distance, angle) == [name |-> name, distance |-> distance, angle |-> angle]

move_forward(distance) ==
    /\ prog = "player"
    /\ fault = "none"
    /\ LET r == move_commit(x, y, forward_x(x, direction, distance),
                            forward_y(y, direction, distance))
       IN  /\ x' = r.x
           /\ y' = r.y
           /\ fault' = r.fault
    /\ ray' = NoRay
    /\ op' = Log("move_forward", distance, 0)
    /\ UNCHANGED <<direction, turned, rc_vars, seg>>

move_backward(distance) ==
    /\ prog = "player"
    /\ fault = "none"
    /\ LET r == move_commit(x, y, backward_x(x, direction, distance),
                            backward_y(y, direction, distance))
       IN  /\ x' = r.x
           /\ y' = r.y
           /\ fault' = r.fault
    /\ ray' = NoRay
    /\ op' = Log("move_backward", distance, 0)
    /\ UNCHANGED <<direction, turned, rc_vars, seg>>

\* Line 82.
turn_left(angle) ==
    /\ prog = "player"
    /\ fault = "none"
    /\ Abs(direction - angle) <= MaxAngle
    /\ direction' = direction - angle
    /\ turned' = turned - angle
    /\ ray' = NoRay
    /\ op' = Log("turn_left", Zero, angle)
    /\ UNCHANGED <<x, y, fault, rc_vars, seg>>

\* Line 91.
turn_right(angle) ==
    /\ prog = "player"
    /\ fault = "none"
    /\ Abs(direction + angle) <= MaxAngle
    /\ direction' = direction + angle
    /\ turned' = turned + angle
    /\ ray' = NoRay
    /\ op' = Log("turn_right", Zero, angle)
    /\ UNCHANGED <<x, y, fault, rc_vars, seg>>

\* Line 101.
rotate(angle) ==
    /\ prog = "player"
    /\ fault = "none"
    /\ Abs(direction + angle) <= MaxAngle
    /\ direction' = direction + angle
    /\ turned' = turned + angle
    /\ ray' = NoRay
    /\ op' = Log("rotate", Zero, angle)
    /\ UNCHANGED <<x, y, fault, rc_vars, seg>>

\* A call of cast_ray(map, player, angle_offset) (main.rs line 34).
CastRay(angle_offset) ==
    /\ prog = "player"
    /\ fault = "none"
    /\ ray' = cast_ray(x, y, direction, angle_offset)
    /\ fault' = ray'.fault
    /\ op' = Log("cast_ray", Zero, angle_offset)
    /\ UNCHANGED <<x, y, direction, turned, rc_vars, seg>>

(***************************************************************************)
(* RayCasting (src/GR/src/raycasting.rs)                                   *)
(***************************************************************************)
\* The worlds the model gives to RayCasting.world (the caller builds it).
\* "room": RoomW x RoomH, wall border of code 1, one pillar of code 2.
\* "hall": HallW x 3, solid but for the three cells of the middle row that
\*         end two cells before the right border, so that its open cells
\*         have column indices around 127.
RoomW == 5

RoomH == 4

HallW == 130

world_w(g) == IF g = "room" THEN RoomW ELSE HallW

world_h(g) == IF g = "room" THEN RoomH ELSE 3

\* self.world[cy][cx], for indices inside the grid.
world_code(g, cx, cy) ==
    IF g = "room"
    THEN IF cx = 0 \/ cy = 0 \/ cx = RoomW - 1 \/ cy = RoomH - 1 THEN 1
         ELSE IF cx = 2 /\ cy = 2 THEN 2
         ELSE 0
    ELSE IF cy = 1 /\ cx >= HallW - 4 /\ cx <= HallW - 2 THEN 0 ELSE 1

\* Indexing self.world[cy][cx] panics outside the vectors.
index_fails(g, cx, cy) == cx < 0 \/ cx >= world_w(g) \/ cy < 0 \/ cy >= world_h(g)

Vec2(vx, vy) == [x |-> vx, y |-> vy]

\* The literal 1e30 of lines 40 and 46: a finite delta, larger than every
\* side_dist a ray reaches inside the grids of the model.
DeltaSentinel == 1000000

\* `map_x as i8`: the low eight bits, read as a signed byte.
AsI8(n) == ((n + 128) % 256) - 128

Builds == {"debug", "release"}

\* `(m as i8 + step) as usize`, lines 79 and 83.  The i8 addition overflows
\* outside -128..127: a debug build panics, a release build wraps; a negative
\* i8 cast to usize is sign-extended to an index far above every grid.
step_index(m, step, build) ==
    LET v == AsI8(m) + step
        w == IF v < -128 \/ v > 127 THEN AsI8(v) ELSE v
    IN  [overflow |-> (v < -128 \/ v > 127) /\ build = "debug",
         index |-> IF w < 0 THEN UsizeMax + 1 + w ELSE w]

\* Lines 77-85: the loop state advanced along the axis of the smaller
\* side_dist, n being the stepped index.
lines_advance(s, n, delta_dist_x, delta_dist_y) ==
    IF QLt(s.side_dist_x, s.side_dist_y)
    THEN [s EXCEPT !.side_dist_x = QAdd(s.side_dist_x, delta_dist_x),
                   !.map_x = n.index,
                   !.side = 0,
                   !.path = Append(s.path, <<n.index, s.map_y>>)]
    ELSE [s EXCEPT !.side_dist_y = QAdd(s.side_dist_y, delta_dist_y),
                   !.map_y = n.index,
                   !.side = 1,
                   !.path = Append(s.path, <<s.map_x, n.index>>)]

\* Lines 87-90: the lookup self.world[map_y][map_x] of the advanced state u.
lines_lookup(g, u) ==
    IF index_fails(g, u.map_x, u.map_y) THEN [u EXCEPT !.fault = "out_of_bounds"]
    ELSE [u EXCEPT !.hit = world_code(g, u.map_x, u.map_y) > 0]

\* The index stepped by one iteration.
lines_next_index(s, step_x, step_y, build) ==
    IF QLt(s.side_dist_x, s.side_dist_y) THEN step_index(s.map_x, step_x, build)
    ELSE step_index(s.map_y, step_y, build)

\* One iteration of `while hit == 0`, lines 76-90.
lines_step(g, s, delta_dist_x, delta_dist_y, step_x, step_y, build) ==
    IF lines_next_index(s, step_x, step_y, build).overflow
    THEN [s EXCEPT !.fault = "overflow"]
    ELSE lines_lookup(g, lines_advance(s, lines_next_index(s, step_x, step_y, build),
                                       delta_dist_x, delta_dist_y))

\* The loop of lines 75-91, cut after `fuel` iterations.
RECURSIVE lines_loop(_, _, _, _, _, _, _, _)
lines_loop(g, s, delta_dist_x, delta_dist_y, step_x, step_y, build, fuel) ==
    IF s.hit \/ s.fault # "none" THEN s
    ELSE IF fuel = 0 THEN [s EXCEPT !.fault = "no_termination"]
    ELSE lines_loop(g, lines_step(g, s, delta_dist_x, delta_dist_y, step_x, step_y, build),
                    delta_dist_x, delta_dist_y, step_x, step_y, build, fuel - 1)

\* Lines 94-98.
lines_perp(s, delta_dist_x, delta_dist_y) ==
    IF s.side = 0 THEN QSub(s.side_dist_x, delta_dist_x)
    ELSE QSub(s.side_dist_y, delta_dist_y)

\* Line 31: the ray of screen column c of w.
ray_direction(d, pl, c, w) ==
    Vec2(QAdd(d.x, QMul(pl.x, QSub(Q(2 * c, w), QInt(1)))),
         QAdd(d.y, QMul(pl.y, QSub(Q(2 * c, w), QInt(1)))))

\* lines_delta with a zero delta for a zero component, in place of the large
\* sentinel.
lines_delta_zero(comp) ==
    IF comp = Zero THEN Zero ELSE QAbs(QInv(comp))

\* Lines 39-49: delta_dist of one axis, from the ray's component on it.
lines_delta(comp) ==
    IF comp = Zero THEN QInt(DeltaSentinel) ELSE QAbs(QInv(comp))

\* Lines 57-72: step of one axis.
lines_sign(comp) == IF QLt(comp, Zero) THEN -1 ELSE 1

\* Lines 57-72: the first side_dist of one axis, from the ray's component,
\* the camera's coordinate and its cell index.
lines_side_dist(comp, coord, m) ==
    IF QLt(comp, Zero) THEN QMul(QSub(coord, QInt(m)), lines_delta(comp))
    ELSE QMul(QSub(QAdd(QInt(m), QInt(1)), coord), lines_delta(comp))

\* Lines 32-36, 51-52: the loop state before the first iteration.
lines_start(p, rd) ==
    [map_x |-> AsUsize(p.x), map_y |-> AsUsize(p.y),
     side_dist_x |-> lines_side_dist(rd.x, p.x, AsUsize(p.x)),
     side_dist_y |-> lines_side_dist(rd.y, p.y, AsUsize(p.y)),
     side |-> 0, hit |-> FALSE, fault |-> "none", path |-> <<>>]

\* Lines 94-98 and the tuple of 117-122, from the final loop state s; the
\* record also holds the locals of the column.
lines_result(g, p, c, rd, s) ==
    [column |-> c,
     ray_dir_x |-> rd.x, ray_dir_y |-> rd.y,
     delta_dist_x |-> lines_delta(rd.x), delta_dist_y |-> lines_delta(rd.y),
     step_x |-> lines_sign(rd.x), step_y |-> lines_sign(rd.y),
     start_x |-> AsUsize(p.x), start_y |-> AsUsize(p.y),
     map_x |-> s.map_x, map_y |-> s.map_y,
     side_dist_x |-> s.side_dist_x, side_dist_y |-> s.side_dist_y,
     side |-> s.side, path |-> s.path, fault |-> s.fault,
     perp_wall_dist |-> IF s.fault = "none"
                        THEN lines_perp(s, lines_delta(rd.x), lines_delta(rd.y))
                        ELSE Q(0, 0),
     code |-> IF s.fault = "none" THEN world_code(g, s.map_x, s.map_y) ELSE 0,
     is_y |-> (s.side = 1)]

\* The body of `for x in 0..w`, lines 31-122, for the ray rd of column c.
lines_ray(g, p, c, rd, build) ==
    lines_result(g, p, c, rd,
                 lines_loop(g, lines_start(p, rd), lines_delta(rd.x), lines_delta(rd.y),
                            lines_sign(rd.x), lines_sign(rd.y), build, MaxIter))

lines_column(g, p, d, pl, c, w, build) ==
    lines_ray(g, p, c, ray_direction(d, pl, c, w), build)

\* `for x in 0..w` from column c on, acc being the lines pushed so far: the
\* loop ends with the first column that panics.
RECURSIVE lines_from(_, _, _, _, _, _, _, _)
lines_push(g, p, d, pl, c, w, build, acc) ==
    IF acc[Len(acc)].fault # "none" THEN acc
    ELSE lines_from(g, p, d, pl, c + 1, w, build, acc)

lines_from(g, p, d, pl, c, w, build, acc) ==
    IF c >= w THEN acc
    ELSE lines_push(g, p, d, pl, c, w, build,
                    Append(acc, lines_column(g, p, d, pl, c, w, build)))

\* lines(w, h), lines 26-126.
lines(g, p, d, pl, w, build) == lines_from(g, p, d, pl, 0, w, build, <<>>)

\* Lines 136-146: the two collision checks and the moves.
cam_move(g, p, d, move_factor) ==
    LET cx == QAdd(p.x, QMul(d.x, move_factor))
    IN  IF index_fails(g, AsUsize(cx), AsUsize(p.y))
        THEN [pos |-> p, fault |-> "out_of_bounds"]
        ELSE LET x1 == IF world_code(g, AsUsize(cx), AsUsize(p.y)) = 0 THEN cx ELSE p.x
                 cy == QAdd(p.y, QMul(d.y, move_factor))
             IN  IF index_fails(g, AsUsize(x1), AsUsize(cy))
                 THEN [pos |-> Vec2(x1, p.y), fault |-> "out_of_bounds"]
                 ELSE [pos |-> Vec2(x1, IF world_code(g, AsUsize(x1), AsUsize(cy)) = 0
                                        THEN cy ELSE p.y),
                       fault |-> "none"]

\* cam_rotate without old_dir_x / old_plane_x: the second line reads the x
\* the first line has just written.
cam_rotate_no_old(v, rotation_factor) ==
    LET new_x == QSub(QMul(v.x, cos(rotation_factor)), QMul(v.y, sin(rotation_factor)))
    IN  Vec2(new_x,
             QAdd(QMul(new_x, sin(rotation_factor)), QMul(v.y, cos(rotation_factor))))

\* Lines 150-154 (dir) and 156-160 (plane): the rotation of one vector.
cam_rotate(v, rotation_factor) ==
    LET old_x == v.x
        new_x == QSub(QMul(v.x, cos(rotation_factor)), QMul(v.y, sin(rotation_factor)))
    IN  Vec2(new_x,
             QAdd(QMul(old_x, sin(rotation_factor)), QMul(v.y, cos(rotation_factor))))

\* Inputs of the model: the pairs (move_factor, rotation_factor) of a call,
\* the rotation factors in angle units (quarter turns and the full turn,
\* whose cosines are exact), and the screen widths.
CamInputs ==
    { <<Q(5, 6), 0>>, <<Q(-5, 6), 0>>, <<Zero, 2>>, <<Zero, -2>>,
      <<Zero, AngleUnits>>, <<Q(5, 6), 2>> }

Widths == {4}

\* transform_cam(move_factor, rotation_factor), lines 134-162.
transform_cam(move_factor, rotation_factor) ==
    /\ prog = "raycasting"
    /\ fault = "none"
    /\ Abs(turned + rotation_factor) <= MaxAngle
    /\ LET m == IF move_factor # Zero THEN cam_move(world, pos, dir, move_factor)
                ELSE [pos |-> pos, fault |-> "none"]
           rot == rotation_factor # 0 /\ m.fault = "none"
       IN  /\ pos' = m.pos
           /\ fault' = m.fault
           /\ dir' = IF rot THEN cam_rotate(dir, rotation_factor) ELSE dir
           /\ plane' = IF rot THEN cam_rotate(plane, rotation_factor) ELSE plane
           /\ turned' = IF rot THEN turned + rotation_factor ELSE turned
    /\ cols' = <<>>
    /\ op' = Log("transform_cam", move_factor, rotation_factor)
    /\ UNCHANGED <<world, cam0, x, y, direction, ray, prog, map, seg>>

\* A call of lines(w, h) by a build of the program.
Lines(w, build) ==
    /\ prog = "raycasting"
    /\ fault = "none"
    /\ cols' = lines(world, pos, dir, plane, w, build)
    /\ fault' = cols'[Len(cols')].fault
    /\ op' = Log("lines", Zero, w)
    /\ UNCHANGED <<world, pos, dir, plane, cam0, turned, x, y, direction, ray, prog, map, seg>>

(***************************************************************************)
(* Projection of a hit to a vertical segment of the screen column          *)
(* (src/src/main.rs render_scene, src/GR/src/raycasting.rs lines)          *)
(***************************************************************************)
\* The largest u16.
U16Max == 65535

\* `as u16` of a float: truncation toward zero, saturating; NaN gives 0.
AsU16(a) ==
    IF a.d = 0 THEN (IF a.n > 0 THEN U16Max ELSE 0)
    ELSE IF a.n < 0 THEN 0
    ELSE IF a.n \div a.d > U16Max THEN U16Max ELSE a.n \div a.d

Min(a, b) == IF a < b THEN a ELSE b

Max(a, b) == IF a < b THEN b ELSE a

\* h / perp_wall_dist.  A zero distance is +0.0 or -0.0 in the program
\* (zero_sign 1 or -1), and the quotient is the infinity of that sign.
height_over_dist(h, perp, zero_sign) ==
    IF perp = Zero THEN Q(zero_sign * h, 0) ELSE QDiv(QInt(h), perp)

\* render_wall_height without the cap of main.rs line 39.
render_wall_height_uncapped(h, perp, zero_sign) ==
    AsUsize(height_over_dist(h, perp, zero_sign))

\* main.rs lines 36-39: wall_height, capped at the height of the framebuffer.
render_wall_height(h, perp, zero_sign) ==
    Min(AsUsize(height_over_dist(h, perp, zero_sign)), h)

\* main.rs line 41: (h / 2).saturating_sub(wall_height / 2).
render_start(h, wall_height) == Max(0, (h \div 2) - (wall_height \div 2))

\* main.rs line 42: h / 2 + wall_height / 2.
render_end(h, wall_height) == (h \div 2) + (wall_height \div 2)

\* main.rs lines 36-49: the segment of one column; `for y in start..end`
\* writes the rows start .. end - 1.
render_column(h, perp, zero_sign) ==
    [caster |-> "render_scene", h |-> h, perp |-> perp,
     height |-> QInt(render_wall_height(h, perp, zero_sign)),
     start |-> render_start(h, render_wall_height(h, perp, zero_sign)),
     end |-> render_end(h, render_wall_height(h, perp, zero_sign)),
     rows |-> render_start(h, render_wall_height(h, perp, zero_sign))
              .. (render_end(h, render_wall_height(h, perp, zero_sign)) - 1)]

\* raycasting.rs line 101: line_height (side_dist - delta_dist gives +0.0
\* for a zero distance).
line_height(h, perp) == height_over_dist(h, perp, 1)

\* raycasting.rs lines 102-107: draw_start.
lines_draw_start(h, lh) ==
    IF QLt(QAdd(QDiv(QNeg(lh), QInt(2)), Q(h, 2)), Zero) THEN Zero
    ELSE QAdd(QDiv(QNeg(lh), QInt(2)), Q(h, 2))

\* raycasting.rs lines 109-114: draw_end.
lines_draw_end(h, lh) ==
    IF QLe(QInt(h), QAdd(QDiv(lh, QInt(2)), Q(h, 2))) THEN QInt(h - 1)
    ELSE QAdd(QDiv(lh, QInt(2)), Q(h, 2))

\* raycasting.rs lines 101-119: the two end points pushed for one column;
\* the caller draws the rows from the first to the second.
lines_segment(h, perp) ==
    [caster |-> "lines", h |-> h, perp |-> perp,
     height |-> line_height(h, perp),
     start |-> AsU16(lines_draw_start(h, line_height(h, perp))),
     end |-> AsU16(lines_draw_end(h, line_height(h, perp))),
     rows |-> AsU16(lines_draw_start(h, line_height(h, perp)))
              .. AsU16(lines_draw_end(h, line_height(h, perp)))]

NoSeg ==
    [caster |-> "none", h |-> 0, perp |-> Zero, height |-> Zero,
     start |-> 0, end |-> 0, rows |-> {}]

\* Inputs of the model: the viewport heights 1 .. MaxHeight and the
\* perpendicular distances of a hit, zero and very small ones included.
MaxHeight == 8

PerpDists ==
    { Zero, Q(1, 1000), Q(1, 3), Q(1, 2), QInt(1), Q(3, 2), QInt(2), QInt(7),
      QInt(1000) }

\* render_scene projects one column from the distance cast_ray returned.
RenderColumn(h, perp, zero_sign) ==
    /\ prog = "player"
    /\ fault = "none"
    /\ seg' = render_column(h, perp, zero_sign)
    /\ op' = Log("render_scene", perp, h)
    /\ UNCHANGED <<x, y, direction, ray, fault, turned, rc_vars>>

\* lines projects one column from its perp_wall_dist.
LinesSegment(h, perp) ==
    /\ prog = "raycasting"
    /\ fault = "none"
    /\ seg' = lines_segment(h, perp)
    /\ op' = Log("lines", perp, h)
    /\ UNCHANGED <<x, y, direction, ray, fault, turned, rc_vars>>

\* The cameras the model constructs RayCasting with: inside an open cell,
\* plane perpendicular to dir.
Cameras ==
    { [world |-> "room", pos |-> Vec2(Q(3, 2), Q(3, 2)),
       dir |-> Vec2(QInt(1), Zero), plane |-> Vec2(Zero, Q(2, 3))],
      [world |-> "room", pos |-> Vec2(Q(3, 2), Q(3, 2)),
       dir |-> Vec2(Q(3, 5), Q(4, 5)), plane |-> Vec2(Q(-8, 15), Q(2, 5))],
      [world |-> "hall", pos |-> Vec2(Q(2 * HallW - 7, 2), Q(3, 2)),
       dir |-> Vec2(QInt(1), Zero), plane |-> Vec2(Zero, Q(2, 3))] }

CameraInit(c) ==
    /\ world = c.world
    /\ pos = c.pos
    /\ dir = c.dir
    /\ plane = c.plane
    /\ cols = <<>>

PlayerInit(d) ==
    /\ x = Q(3, 2)
    /\ y = Q(3, 2)
    /\ direction = d
    /\ ray = NoRay

\* Either program starts: Player::new(x, y, direction) with the player
\* inside an open cell (main.rs line 179), or a RayCasting value built by its
\* caller.  The variables of the other program keep their first values.
Init ==
    /\ prog \in {"player", "raycasting"}
    /\ map = "pillar"
    /\ IF prog = "player"
       THEN /\ \E d \in {0, 1} : PlayerInit(d)
            /\ CameraInit(CHOOSE c \in Cameras : c.world = "hall")
       ELSE /\ PlayerInit(0)
            /\ \E c \in Cameras : CameraInit(c)
    /\ seg = NoSeg
    /\ turned = 0
    /\ cam0 = [direction |-> direction, dir |-> dir, plane |-> plane]
    /\ fault = "none"
    /\ op = Log("new", Zero, 0)

Next ==
    \/ \E d \in Distances : move_forward(d)
    \/ \E d \in Distances : move_backward(d)
    \/ \E a \in TurnAngles : turn_left(a)
    \/ \E a \in TurnAngles : turn_right(a)
    \/ \E a \in TurnAngles : rotate(a) \/ rotate(-a)
    \/ \E o \in Offsets : CastRay(o)
    \/ \E i \in CamInputs : transform_cam(i[1], i[2])
    \/ \E w \in Widths, b \in Builds : Lines(w, b)

Spec == Init /\ [][Next]_vars

\* The end-to-end scenario: the player program on the bordered square grid,
\* Player::new(8.0, 8.0, 0.0), then turns and casts of rays from that place.
InitEndToEnd ==
    /\ prog = "player"
    /\ map = "bordered"
    /\ x = QInt(EndToEndCamera)
    /\ y = QInt(EndToEndCamera)
    /\ direction = 0
    /\ ray = NoRay
    /\ CameraInit(CHOOSE c \in Cameras : c.world = "hall")
    /\ seg = NoSeg
    /\ turned = 0
    /\ cam0 = [direction |-> direction, dir |-> dir, plane |-> plane]
    /\ fault = "none"
    /\ op = Log("new", Zero, 0)

\* Turns of an eighth of a turn and casts, the position being kept.
NextEndToEnd ==
    \/ turn_left(1)
    \/ turn_right(1)
    \/ \E a \in TurnAngles : rotate(a) \/ rotate(-a)
    \/ \E o \in Offsets : CastRay(o)

SpecEndToEnd == InitEndToEnd /\ [][NextEndToEnd]_vars

\* The projection of a hit, as a function of the viewport height and of the
\* distance: either program, at its construction, projects columns.
NextProjection ==
    \/ \E h \in 1..MaxHeight, d \in PerpDists : RenderColumn(h, d, 1)
    \/ \E h \in 1..MaxHeight : RenderColumn(h, Zero, -1)
    \/ \E h \in 1..MaxHeight, d \in PerpDists : LinesSegment(h, d)

SpecProjection == Init /\ [][NextProjection]_vars

(***************************************************************************)
(* Properties                                                              *)
(***************************************************************************)
\* The cell of a RayCasting position, as transform_cam and lines index it.
cam_open(g, wx, wy) ==
    /\ ~index_fails(g, AsUsize(wx), AsUsize(wy))
    /\ world_code(g, AsUsize(wx), AsUsize(wy)) = 0

\* The cell of a Player position is inside the grid and not a wall.
player_open(wx, wy) == ~is_wall_fails(wx, wy) /\ ~is_wall(wx, wy)

\* C1: after any sequence of moves and turns the camera position lies in a
\* non-wall cell, for Player and for RayCasting.
C1_PositionInOpenCell ==
    /\ prog = "player" => player_open(x, y)
    /\ prog = "raycasting" => cam_open(world, pos.x, pos.y)

\* A player standing in an open cell after a forward move whose candidates
\* on both axes are wall cells: the move was held back by the collision checks.
C1_Witness ==
    /\ op.name = "move_forward"
    /\ fault = "none"
    /\ player_open(x, y)
    /\ is_wall(forward_x(x, direction, op.distance), y)
    /\ is_wall(x, forward_y(y, direction, op.distance))

\* The step is a call of move_forward, move_backward or transform_cam with a
\* non-zero move factor, that ended without a failure.
IsMove == 
    /\ fault' = "none"
    /\ \/ op'.name \in {"move_forward", "move_backward"}
       \/ op'.name = "transform_cam" /\ op'.distance # Zero

\* The candidates of the move that the step made, from the pre-move state.
cand_x ==
    IF op'.name = "move_forward" THEN forward_x(x, direction, op'.distance)
    ELSE IF op'.name = "move_backward" THEN backward_x(x, direction, op'.distance)
    ELSE QAdd(pos.x, QMul(dir.x, op'.distance))

cand_y ==
    IF op'.name = "move_forward" THEN forward_y(y, direction, op'.distance)
    ELSE IF op'.name = "move_backward" THEN backward_y(y, direction, op'.distance)
    ELSE QAdd(pos.y, QMul(dir.y, op'.distance))

\* The position before and after the step, of the program that runs.
pre_x == IF prog = "player" THEN x ELSE pos.x

pre_y == IF prog = "player" THEN y ELSE pos.y

post_x == IF prog = "player" THEN x' ELSE pos.x'

post_y == IF prog = "player" THEN y' ELSE pos.y'

\* The cell of a point is open, for the program that runs.
open_at(wx, wy) ==
    IF prog = "player" THEN player_open(wx, wy) ELSE cam_open(world, wx, wy)

\* C5 as claimed: the x update is committed exactly when the cell of
\* (candidate x, pre-move y) is non-wall and the y update exactly when the cell
\* of (pre-move x, candidate y) is non-wall, neither depending on the other.
C5_AxesDecidedIndependently ==
    [][IsMove =>
          /\ post_x = (IF open_at(cand_x, pre_y) THEN cand_x ELSE pre_x)
          /\ post_y = (IF open_at(pre_x, cand_y) THEN cand_y ELSE pre_y)]_vars

\* C5 amended: the x update is committed exactly when the cell of
\* (candidate x, pre-move y) is non-wall; the y update is committed exactly
\* when the cell of (x after the x decision, candidate y) is non-wall.
C5_AxesDecidedInSequence ==
    [][IsMove =>
          /\ post_x = (IF open_at(cand_x, pre_y) THEN cand_x ELSE pre_x)
          /\ post_y = (IF open_at(post_x, cand_y) THEN cand_y ELSE pre_y)]_vars

\* A forward move committed on both axes although the cell of
\* (pre-move x, candidate y) is a wall: the player stands one diagonal step
\* past a cell whose y candidate was blocked.
C5_Witness ==
    /\ op.name = "move_forward"
    /\ fault = "none"
    /\ player_open(x, y)
    /\ cos(direction) # Zero /\ sin(direction) # Zero
    /\ is_wall(backward_x(x, direction, op.distance), y)
    /\ player_open(backward_x(x, direction, op.distance),
                   backward_y(y, direction, op.distance))

\* The move is diagonal: both components of the step are non-zero.
IsDiagonal == cand_x # pre_x /\ cand_y # pre_y

\* C6 as claimed: in a diagonal move, the axis whose candidate (taken with the
\* other coordinate as before the move) is a wall keeps its coordinate and the
\* axis whose candidate is open advances by its full component; with both
\* candidates walls the position does not change.
C6_SlidingAlongWalls ==
    [][(IsMove /\ IsDiagonal) =>
          /\ (~open_at(cand_x, pre_y) /\ open_at(pre_x, cand_y))
                => (post_x = pre_x /\ post_y = cand_y)
          /\ (open_at(cand_x, pre_y) /\ ~open_at(pre_x, cand_y))
                => (post_x = cand_x /\ post_y = pre_y)
          /\ (~open_at(cand_x, pre_y) /\ ~open_at(pre_x, cand_y))
                => (post_x = pre_x /\ post_y = pre_y)]_vars

\* C6 amended: the y candidate is taken at the x the move has after its x
\* decision.  x blocked and (pre-move x, candidate y) open: x unchanged, y
\* advanced; x open and (candidate x, candidate y) a wall: x advanced, y
\* unchanged; x blocked and (pre-move x, candidate y) a wall: no change.
C6_SlidingAfterXDecision ==
    [][(IsMove /\ IsDiagonal) =>
          /\ (~open_at(cand_x, pre_y) /\ open_at(pre_x, cand_y))
                => (post_x = pre_x /\ post_y = cand_y)
          /\ (open_at(cand_x, pre_y) /\ ~open_at(cand_x, cand_y))
                => (post_x = cand_x /\ post_y = pre_y)
          /\ (~open_at(cand_x, pre_y) /\ ~open_at(pre_x, cand_y))
                => (post_x = pre_x /\ post_y = pre_y)]_vars

\* After a diagonal forward move the player has slid: the x a further step
\* back would give is the x of a wall cell's far side, i.e. the move advanced
\* y by its full component while x was held by a wall.
C6_Witness ==
    /\ op.name = "move_forward"
    /\ fault = "none"
    /\ cos(direction) # Zero /\ sin(direction) # Zero
    /\ is_wall(forward_x(x, direction, op.distance), y)
    /\ is_wall(forward_x(x, direction, op.distance),
               backward_y(y, direction, op.distance))
    /\ player_open(x, backward_y(y, direction, op.distance))
    /\ ~is_wall(x, forward_y(y, direction, op.distance))

\* The rays the state holds: the last cast_ray call's, and the columns of the
\* last lines call.
Rays == (IF ray.valid THEN {ray} ELSE {}) \cup {cols[k] : k \in 1..Len(cols)}

\* Width and height of the grid of the program that runs.
grid_w == IF prog = "player" THEN map_w(map) ELSE world_w(world)

grid_h == IF prog = "player" THEN map_h(map) ELSE world_h(world)

\* C2: on a wall-bordered grid, from a camera inside a non-wall cell, no grid
\* lookup is made outside the grid, by the DDA loops or by the moves' checks.
C2_NoLookupOutsideGrid ==
    /\ fault # "out_of_bounds"
    /\ \A r \in Rays : r.fault # "out_of_bounds"

\* C3: every ray cast from inside a non-wall cell of a wall-bordered grid
\* terminates and returns a finite, non-negative perpendicular distance.
C3_RayReturnsFiniteDistance ==
    \A r \in Rays :
        /\ r.fault = "none"
        /\ IsFinite(r.perp_wall_dist)
        /\ QLe(Zero, r.perp_wall_dist)

\* C4: the DDA loop of one ray finds a wall cell and stops after at most
\* W + H cell advances.
C4_LoopStopsWithinWPlusH ==
    \A r \in Rays :
        /\ r.fault = "none"
        /\ Len(r.path) >= 1
        /\ Len(r.path) <= grid_w + grid_h
        /\ IF prog = "player" THEN is_wall(QInt(r.map_x), QInt(r.map_y))
           ELSE world_code(world, r.map_x, r.map_y) > 0

\* What C2, C3 and C4 say of the rays holds of cast_ray, and of lines on the
\* grid whose indices stay below 127.
Lemma_SmallGridRays ==
    (prog = "player" \/ world = "room") =>
        /\ C2_NoLookupOutsideGrid
        /\ C3_RayReturnsFiniteDistance
        /\ C4_LoopStopsWithinWPlusH

\* C7: the distance cast_ray returns is the distance projected onto the facing
\* axis: with the player facing a wall squarely (along a grid axis), a ray at
\* any angular offset that hits the same wall face as the ray of offset zero
\* returns the same distance.
C7_SameFaceSameDistance ==
    (prog = "player" /\ ray.valid /\ fault = "none" /\ direction % 2 = 0) =>
        LET c == cast_ray(x, y, direction, 0)
        IN  (/\ ray.side = c.side
             /\ sin(direction) = Zero => (ray.side = 0 /\ ray.map_x = c.map_x)
             /\ cos(direction) = Zero => (ray.side = 1 /\ ray.map_y = c.map_y))
            => ray.perp_wall_dist = c.perp_wall_dist

\* The side_dist - delta_dist form of the distance (lines 94-98 of
\* raycasting.rs), from the locals of a ray.
side_dist_form(r) ==
    IF r.side = 0 THEN QSub(r.side_dist_x, r.delta_dist_x)
    ELSE QSub(r.side_dist_y, r.delta_dist_y)

\* The closed form of the distance (lines 72-76 of raycaster.rs), from the
\* locals of a ray cast from (cx, cy).
closed_form(r, cx, cy) ==
    IF r.side = 0
    THEN QDiv(QAdd(QSub(QInt(r.map_x), cx), Q(1 - r.step_x, 2)), r.ray_dir_x)
    ELSE QDiv(QAdd(QSub(QInt(r.map_y), cy), Q(1 - r.step_y, 2)), r.ray_dir_y)

\* C8: when the DDA loop has stopped at a wall, side_dist - delta_dist of the
\* axis stepped last equals the closed form
\* (map index - position + (1 - step) / 2) / ray direction component; the
\* distance each caster returns equals both.
C8_DistanceFormsAgree ==
    /\ (ray.valid /\ ray.fault = "none") =>
          /\ ray.perp_wall_dist = side_dist_form(ray)
          /\ closed_form(ray, x, y) = side_dist_form(ray)
    /\ \A k \in 1..Len(cols) :
          cols[k].fault = "none" =>
              /\ cols[k].perp_wall_dist = closed_form(cols[k], pos.x, pos.y)
              /\ closed_form(cols[k], pos.x, pos.y) = side_dist_form(cols[k])

\* A ray of cast_ray that made several steps, the last one along x toward
\* smaller indices (step -1, where (1 - step) / 2 is 1), and a column of lines
\* whose ray is oblique and stopped after several steps.
C8_Witness ==
    /\ ray.valid /\ ray.fault = "none"
    /\ Len(ray.path) >= 3 /\ ray.side = 0 /\ ray.step_x = -1
    /\ ray.ray_dir_y # Zero

C8_WitnessLines ==
    \E k \in 1..Len(cols) :
        /\ cols[k].fault = "none"
        /\ Len(cols[k].path) >= 3
        /\ cols[k].ray_dir_x # Zero /\ cols[k].ray_dir_y # Zero
        /\ cols[k].step_y = -1 /\ cols[k].side = 1

\* C9: a ray with an exactly zero component on one axis is never stepped
\* along that axis: every cell it visits has the start cell's index on that
\* axis, and the side reported is the other axis's.
C9_ZeroAxisNeverStepped ==
    \A r \in Rays :
        /\ (r.ray_dir_x = Zero /\ r.ray_dir_y # Zero) =>
              /\ \A i \in 1..Len(r.path) : r.path[i][1] = r.start_x
              /\ r.map_x = r.start_x
              /\ (Len(r.path) >= 1 => r.side = 1)
        /\ (r.ray_dir_y = Zero /\ r.ray_dir_x # Zero) =>
              /\ \A i \in 1..Len(r.path) : r.path[i][2] = r.start_y
              /\ r.map_y = r.start_y
              /\ (Len(r.path) >= 1 => r.side = 0)

\* A column of lines whose ray has a zero x component and which stopped at a
\* wall after several steps along y.
C9_Witness ==
    \E k \in 1..Len(cols) :
        /\ cols[k].ray_dir_x = Zero
        /\ cols[k].fault = "none"
        /\ Len(cols[k].path) >= 2

\* C10 as claimed: once the turns since construction sum to a full turn, the
\* stored direction of Player and the dir and plane of RayCasting are what
\* they were at construction.
C10_FullTurnRestoresStoredDirection ==
    (fault = "none" /\ turned \in {AngleUnits, -AngleUnits}) =>
        /\ direction = cam0.direction
        /\ dir = cam0.dir
        /\ plane = cam0.plane

\* C10 amended: once the turns sum to a full turn, the facing direction
\* (cos, sin) of Player's stored angle, and the dir and plane of RayCasting,
\* are what they were at construction; Player's stored angle itself is the
\* first one plus or minus 2 * pi.
C10_FullTurnRestoresFacing ==
    (fault = "none" /\ turned \in {AngleUnits, -AngleUnits}) =>
        /\ cos(direction) = cos(cam0.direction)
        /\ sin(direction) = sin(cam0.direction)
        /\ prog = "player" => direction = cam0.direction + turned
        /\ dir = cam0.dir
        /\ plane = cam0.plane

\* RayCasting with an oblique dir, turned through a full turn by four calls
\* of a quarter turn.
C10_Witness ==
    /\ prog = "raycasting"
    /\ fault = "none"
    /\ turned \in {AngleUnits, -AngleUnits}
    /\ op.name = "transform_cam" /\ op.angle \in {2, -2}
    /\ dir.x # Zero /\ dir.y # Zero

\* C11: on the 16 x 16 grid with a border of wall code 1 and an empty
\* interior, from (8.0, 8.0) facing angle 0, the ray of offset zero returns
\* the distance 7, stops at the cell (15, 8) of the right border, and has
\* stepped along x only.
C11_EndToEndDistanceSeven ==
    (/\ map = "bordered" /\ ray.valid
     /\ x = QInt(8) /\ y = QInt(8) /\ direction = 0 /\ ray.angle_offset = 0) =>
        /\ ray.fault = "none"
        /\ ray.perp_wall_dist = QInt(7)
        /\ ray.map_x = 15 /\ ray.map_y = 8
        /\ ray.side = 0 /\ ~ray.is_horizontal
        /\ Len(ray.path) = 7
        /\ \A i \in 1..Len(ray.path) : ray.path[i] = <<8 + i, 8>>

\* The ray of offset zero has been cast from (8.0, 8.0) facing angle 0 on the
\* 16 x 16 grid.
C11_Witness ==
    /\ map = "bordered" /\ EndToEndSize = 16 /\ EndToEndCamera = 8
    /\ op.name = "cast_ray" /\ ray.valid
    /\ x = QInt(8) /\ y = QInt(8) /\ direction = 0 /\ ray.angle_offset = 0

\* C12 as claimed: the projected height is capped at h and the segment is
\* clamped so that 0 <= start <= end <= h - 1, no row outside 0 .. h - 1 being
\* written, for every distance (zero and very small ones included).
C12_SegmentClampedInclusive ==
    seg.caster # "none" =>
        /\ QLe(seg.height, QInt(seg.h))
        /\ 0 <= seg.start /\ seg.start <= seg.end /\ seg.end <= seg.h - 1
        /\ seg.rows \subseteq 0..(seg.h - 1)

\* The height h / perp capped at h, as a rational.
capped_height(h, perp) ==
    IF QLt(QInt(h), line_height(h, perp)) THEN QInt(h) ELSE line_height(h, perp)

\* The smaller of two rationals.
QMin(a, b) == IF QLt(b, a) THEN b ELSE a

\* C12 amended: no row outside 0 .. h - 1 is written, for every h >= 1 and
\* every distance.  render_scene caps the height at h and writes the rows
\* start .. end - 1, where 0 <= start <= end <= h and end = h / 2 + height / 2
\* (integer divisions) is not clamped to h - 1.  lines does not cap the
\* height; its end points are start = max(0, h/2 - height/2) and
\* end = min(h - 1, h/2 + height/2) of the capped height, truncated to
\* integers, with 0 <= start <= end <= h - 1.
C12_RowsWithinViewport ==
    /\ seg.caster # "none" => seg.rows \subseteq 0..(seg.h - 1)
    /\ seg.caster = "render_scene" =>
          /\ QLe(seg.height, QInt(seg.h))
          /\ 0 <= seg.start /\ seg.start <= seg.end /\ seg.end <= seg.h
          /\ seg.end = (seg.h \div 2) + (Trunc(seg.height) \div 2)
          /\ seg.end - seg.start <= seg.h
    /\ seg.caster = "lines" =>
          /\ 0 <= seg.start /\ seg.start <= seg.end /\ seg.end <= seg.h - 1
          /\ seg.start =
               AsU16(QSub(Q(seg.h, 2),
                          QDiv(capped_height(seg.h, seg.perp), QInt(2))))
          /\ seg.end =
               AsU16(QMin(QInt(seg.h - 1),
                          QAdd(Q(seg.h, 2),
                               QDiv(capped_height(seg.h, seg.perp), QInt(2)))))

\* render_scene has projected a hit at distance zero on a viewport of even
\* height: the height is capped at h and end is h, one above the last row.
C12_Witness ==
    /\ seg.caster = "render_scene"
    /\ seg.perp = Zero
    /\ seg.h = 4
    /\ seg.height = QInt(4)
    /\ seg.start = 0 /\ seg.end = 4

\* lines has projected a hit at distance zero: the infinite line_height is
\* clamped to the rows 0 .. h - 1.
C12_WitnessLines ==
    /\ seg.caster = "lines"
    /\ seg.perp = Zero
    /\ ~IsFinite(seg.height)
    /\ seg.start = 0 /\ seg.end = seg.h - 1

\* The position the rays of the state were cast from, and the code of a cell
\* of the grid of the program that runs.
cast_x == IF prog = "player" THEN x ELSE pos.x

cast_y == IF prog = "player" THEN y ELSE pos.y

cell_code(cx, cy) ==
    IF prog = "player" THEN map_code(cx, cy) ELSE world_code(world, cx, cy)

in_grid(cx, cy) == cx >= 0 /\ cx < grid_w /\ cy >= 0 /\ cy < grid_h

QMax(a, b) == IF QLt(a, b) THEN b ELSE a

\* The geometric ray p + t * d, t >= 0, on one axis: the first and the last t
\* at which its coordinate is inside [c, c + 1] (an empty interval is
\* +infinity .. -infinity).
slab_lo(c, p, d) ==
    IF d = Zero
    THEN IF QLe(QInt(c), p) /\ QLe(p, QInt(c + 1)) THEN QNeg(Infinity) ELSE Infinity
    ELSE IF QLt(Zero, d) THEN QDiv(QSub(QInt(c), p), d)
    ELSE QDiv(QSub(QInt(c + 1), p), d)

slab_hi(c, p, d) ==
    IF d = Zero
    THEN IF QLe(QInt(c), p) /\ QLe(p, QInt(c + 1)) THEN Infinity ELSE QNeg(Infinity)
    ELSE IF QLt(Zero, d) THEN QDiv(QSub(QInt(c + 1), p), d)
    ELSE QDiv(QSub(QInt(c), p), d)

\* The t at which the ray of r enters and leaves the closed cell (cx, cy).
entry_t(r, cx, cy) ==
    QMax(Zero, QMax(slab_lo(cx, cast_x, r.ray_dir_x), slab_lo(cy, cast_y, r.ray_dir_y)))

exit_t(r, cx, cy) ==
    QMin(slab_hi(cx, cast_x, r.ray_dir_x), slab_hi(cy, cast_y, r.ray_dir_y))

\* The ray of r touches the cell (a border or corner point is enough).
ray_meets(r, cx, cy) == QLe(entry_t(r, cx, cy), exit_t(r, cx, cy))

\* The ray of r passes through the interior of the cell.
ray_crosses(r, cx, cy) ==
    /\ QLt(entry_t(r, cx, cy), exit_t(r, cx, cy))
    /\ r.ray_dir_x = Zero => (QLt(QInt(cx), cast_x) /\ QLt(cast_x, QInt(cx + 1)))
    /\ r.ray_dir_y = Zero => (QLt(QInt(cy), cast_y) /\ QLt(cast_y, QInt(cy + 1)))

\* The cell visited before the i-th one: the camera's cell for the first.
path_prev(r, i) == IF i = 1 THEN <<r.start_x, r.start_y>> ELSE r.path[i - 1]

four_neighbours(a, b) ==
    \/ a[2] = b[2] /\ (a[1] = b[1] + 1 \/ a[1] = b[1] - 1)
    \/ a[1] = b[1] /\ (a[2] = b[2] + 1 \/ a[2] = b[2] - 1)

\* What C13 says of one ray.
first_occupied_cell(r) ==
    /\ r.fault = "none"
    /\ Len(r.path) >= 1
    /\ r.path[Len(r.path)] = <<r.map_x, r.map_y>>
    /\ in_grid(r.map_x, r.map_y) /\ cell_code(r.map_x, r.map_y) # 0
    /\ \A i \in 1..Len(r.path) :
          /\ four_neighbours(r.path[i], path_prev(r, i))
          /\ in_grid(r.path[i][1], r.path[i][2])
          /\ i < Len(r.path) => cell_code(r.path[i][1], r.path[i][2]) = 0
          /\ ray_meets(r, r.path[i][1], r.path[i][2])
          /\ QLe(entry_t(r, path_prev(r, i)[1], path_prev(r, i)[2]),
                 entry_t(r, r.path[i][1], r.path[i][2]))
    /\ \A cx \in 0..(grid_w - 1), cy \in 0..(grid_h - 1) :
          (/\ ray_crosses(r, cx, cy)
           /\ QLt(entry_t(r, cx, cy), entry_t(r, r.map_x, r.map_y)))
          => (\/ <<cx, cy>> = <<r.start_x, r.start_y>>
              \/ \E i \in 1..Len(r.path) : r.path[i] = <<cx, cy>>)

\* C13: the DDA loop stops at the first occupied cell along the ray: the
\* cells visited before it are empty, each step goes to a 4-neighbour, the
\* cells visited are the cells the geometric ray passes through, in order
\* (each one touches the ray, and every cell whose interior the ray crosses
\* before the stopping cell is visited), and the code lines reports is the
\* code of the stopping cell.
C13_StopsAtFirstOccupiedCell ==
    /\ \A r \in Rays : first_occupied_cell(r)
    /\ \A k \in 1..Len(cols) :
          cols[k].code = world_code(world, cols[k].map_x, cols[k].map_y)

\* What C13 says holds of cast_ray, and of lines on the grid whose indices
\* stay below 127.
Lemma_SmallGridFirstOccupiedCell ==
    (prog = "player" \/ world = "room") => C13_StopsAtFirstOccupiedCell

\* The index pair one advance of the loop of r must produce from the pair c:
\* the index of the stepped axis plus the step, as integers.
exact_step(r, c) == {<<c[1] + r.step_x, c[2]>>, <<c[1], c[2] + r.step_y>>}

index_steps_exact(r) ==
    /\ r.fault # "overflow"
    /\ \A i \in 1..Len(r.path) : r.path[i] \in exact_step(r, path_prev(r, i))

\* C14: the signed-step index arithmetic never wraps: every advance of the
\* loop, in lines (through i8) and in cast_ray, yields exactly the index plus
\* or minus one, for indices above 127 as well.
C14_IndexStepNeverWraps == \A r \in Rays : index_steps_exact(r)

\* The arithmetic is exact in cast_ray (isize), and in lines while the
\* stepped index stays below 127.
Lemma_SmallGridIndexSteps ==
    (prog = "player" \/ world = "room") => C14_IndexStepNeverWraps

====
